---- MODULE Spec2Model ----
(***************************************************************************)
(* A model of the nested engagement and visibility engine of the           *)
(* social-media backend: the Post aggregate (models/Post.js), the posts and *)
(* users routers, and the middleware they run behind.                      *)
(*                                                                         *)
(* The store is the Post collection.  A request handler loads one Post     *)
(* document (getPost), mutates the loaded document in memory, and calls    *)
(* document.save().  save() is Mongoose's: it sends one updateOne holding  *)
(* only the modified paths ($set for scalars, $push / $pull for array      *)
(* pushes and pulls), guarded and followed by the version key __v as       *)
(* Mongoose's versioning prescribes.  No schema of the repository turns    *)
(* the version key off (Post.js 72-76).                                    *)
(***************************************************************************)
EXTENDS Integers, Sequences, FiniteSets, TLC

VARIABLES posts, nextId, clock, reqs, limiter, admitted, accounts, calls, issued

vars == <<posts, nextId, clock, reqs, limiter, admitted, accounts, calls, issued>>

\* The state of the components a post route served past its limiter leaves
\* alone: the limiter, and the accounts with the password-reset routes.
others == <<limiter, admitted, accounts, calls, issued>>

----------------------------------------------------------------------------
(* Bounds and inputs *)

MaxPosts == 2
MaxEntries == 2
MaxFeedComments == 1
MaxConcEntries == 3

\* Clock ticks that pass without a request.  A tick is half a day where posts
\* age, 10 minutes in the password-reset flow, and the unit of windowMs at
\* the limiter.
MaxTicks == 3

\* The largest maxActions and the largest windowMs (in clock ticks) a
\* limiter is built with.
MaxActions == 2
MaxWindow == 2

\* How many one-time passwords and reset tokens are generated in all.
MaxMinted == 3

\* Program constants.  Time is counted in units of half a day, so that the
\* 24 hours of the trending window are two units.
MaxImages == 5
Day == 2
MaxPostLen == 500
MaxCommentLen == 500
MaxReplyLen == 200

\* Lifetimes of a one-time password (10 minutes) and of a reset token (30
\* minutes), in clock ticks of 10 minutes.
OtpLife == 1
TokenLife == 3

Users == {"u1", "u2"}
Anonymous == "anon"
Viewers == Users \cup {Anonymous}
Slots == {1, 2}

Range(s) == {s[i] : i \in DOMAIN s}

----------------------------------------------------------------------------
(* Documents *)

NewReply(id, author, content) ==
  [id |-> id, author |-> author, content |-> content, likes |-> <<>>]

NewComment(id, author, content) ==
  [id |-> id, author |-> author, content |-> content, likes |-> <<>>, replies |-> <<>>]

NewPost(id, author, content, images, createdAt) ==
  [id |-> id, author |-> author, content |-> content, images |-> images,
   isHidden |-> FALSE, isDeleted |-> FALSE,
   likes |-> <<>>, comments |-> <<>>, createdAt |-> createdAt]

CommentsCountWithReplies(p) ==
  Len(p.comments) + Len(SelectSeq(p.comments, LAMBDA c : c.replies # <<>>))

likesCount(p) == Len(p.likes)

commentsCount(p) == Len(p.comments)

\* toJSON / toObject with virtuals: the document plus its derived counts.
ToJSON(p) ==
  [id |-> p.id, author |-> p.author, content |-> p.content, images |-> p.images,
   isHidden |-> p.isHidden, isDeleted |-> p.isDeleted,
   likes |-> p.likes, comments |-> p.comments, createdAt |-> p.createdAt,
   likesCount |-> likesCount(p), commentsCount |-> commentsCount(p)]

\* DocumentArray.id(): the position of the first sub-document with that id, 0 if none.
IndexOfId(docs, id) ==
  IF \E i \in DOMAIN docs : docs[i].id = id
  THEN CHOOSE i \in DOMAIN docs :
         docs[i].id = id /\ \A j \in DOMAIN docs : docs[j].id = id => i <= j
  ELSE 0

EntryCount(p) ==
  LET RECURSIVE Sum(_)
      Sum(i) == IF i = 0 THEN 0 ELSE 1 + Len(p.comments[i].replies) + Sum(i - 1)
  IN Sum(Len(p.comments))

----------------------------------------------------------------------------
(* Array operations of a loaded document and their server-side counterparts *)

Pull(arr, x) == SelectSeq(arr, LAMBDA y : y # x)

\* A push that puts the new element in front.
PushFront(arr, x) == <<x>> \o arr

Push(arr, x) == Append(arr, x)

ApplyArrayOpAlwaysPush(arr, op, x) == Append(arr, x)

ApplyArrayOp(arr, op, x) ==
  IF op = "push" THEN Push(arr, x) ELSE Pull(arr, x)

\* some(like => like.equals(userObjectId)) ? pull : push
ToggleOpAlwaysPush(likes, userId) == "push"

ToggleOp(likes, userId) ==
  IF userId \in Range(likes) THEN "pull" ELSE "push"

NoDelta ==
  [hid |-> <<>>, del |-> <<>>, content |-> <<>>, images |-> <<>>,
   field |-> "none", ci |-> 0, ri |-> 0, op |-> "none", val |-> <<>>]

\* The array operation of a delta applied to a document: by Mongoose to the
\* loaded copy, by the database to the stored one (positional paths
\* comments.<ci>.likes, comments.<ci>.replies.<ri>.likes).
ApplyArray(p, d) ==
  IF d.field = "likes" /\ d.ci = 0
    THEN [p EXCEPT !.likes = ApplyArrayOp(@, d.op, d.val)]
  ELSE IF d.field = "comments"
    THEN [p EXCEPT !.comments = Push(@, d.val)]
  ELSE IF d.ci \notin DOMAIN p.comments
    THEN p
  ELSE IF d.field = "likes" /\ d.ri = 0
    THEN [p EXCEPT !.comments[d.ci].likes = ApplyArrayOp(@, d.op, d.val)]
  ELSE IF d.field = "replies"
    THEN [p EXCEPT !.comments[d.ci].replies = Push(@, d.val)]
  ELSE IF d.field = "likes" /\ d.ri \in DOMAIN p.comments[d.ci].replies
    THEN [p EXCEPT !.comments[d.ci].replies[d.ri].likes = ApplyArrayOp(@, d.op, d.val)]
  ELSE p

ApplySets(p, d) ==
  [p EXCEPT !.isHidden = IF d.hid = <<>> THEN @ ELSE d.hid[1],
            !.isDeleted = IF d.del = <<>> THEN @ ELSE d.del[1],
            !.content = IF d.content = <<>> THEN @ ELSE d.content[1],
            !.images = IF d.images = <<>> THEN @ ELSE d.images[1]]

ApplyDelta(p, d) == ApplySets(ApplyArray(p, d), d)

\* Mongoose's versioning of a delta: a push or pull on a top-level array
\* increments __v; one on a path through an array position, and a $set of a
\* whole array, also require the stored __v to equal the loaded one.
VersionMode(d) ==
  IF d.images # <<>> THEN "all"
  ELSE IF d.field = "none" THEN "none"
  ELSE IF d.ci > 0 THEN "all"
  ELSE "inc"

IsEmptyDelta(d) ==
  /\ d.field = "none"
  /\ d.hid = <<>> /\ d.del = <<>> /\ d.content = <<>> /\ d.images = <<>>

\* document.save() against the stored document: one updateOne that carries
\* the delta of the loaded copy.  __v only ever grows and is only compared
\* for equality with the value the request loaded, so it is kept as `stale`:
\* the stored __v was incremented after this request loaded the document.
\* [ok, doc, inc]: whether the update matched, the stored document after it,
\* and whether it incremented __v.
SaveDoc(stored, d, stale) ==
  IF IsEmptyDelta(d) THEN [ok |-> TRUE, doc |-> stored, inc |-> FALSE]
  ELSE IF VersionMode(d) = "all" /\ stale
    THEN [ok |-> FALSE, doc |-> stored, inc |-> FALSE]
  ELSE [ok |-> TRUE, doc |-> ApplyDelta(stored, d),
        inc |-> VersionMode(d) # "none"]

----------------------------------------------------------------------------
(* Requests and handlers *)

PostIds == 1..MaxPosts

Req(op, actor, pid, cid, rid, content, images) ==
  [op |-> op, actor |-> actor, pid |-> pid, cid |-> cid, rid |-> rid,
   content |-> content, images |-> images]

\* String.prototype.trim on a string given as a sequence of characters.
RECURSIVE TrimLeft(_)
TrimLeft(s) == IF s # <<>> /\ Head(s) = " " THEN TrimLeft(Tail(s)) ELSE s

RECURSIVE TrimRight(_)
TrimRight(s) ==
  IF s # <<>> /\ s[Len(s)] = " " THEN TrimRight(SubSeq(s, 1, Len(s) - 1)) ELSE s

Trim(s) == TrimRight(TrimLeft(s))

\* validateRequest for the one field `content` of the rules the post routes
\* use (required, maxLength): TRUE when no error is collected.  An absent
\* content is the empty string.
validateRequest(required, maxLength, value) ==
  IF required /\ Trim(value) = <<>> THEN FALSE
  ELSE IF value = <<>> THEN TRUE
  ELSE Len(value) <= maxLength

\* An image string, split after its scheme: /^https?:\/\/.+/ matches it.
ImageUrl == <<"http://", "i">>

IsImageUrl(image) == Len(image) >= 2 /\ image[1] \in {"http://", "https://"}

\* postSchema.pre('validate'): run by every save() on the document in memory.
preValidate(p) == p.content # <<>> \/ p.images # <<>>

\* A getPost whose query leaves out isDeleted: false.
getPostAny(store, pid) == IF pid \in DOMAIN store THEN <<store[pid]>> ELSE <<>>

\* getPost: Post.findOne({_id, isDeleted: false}); <<>> when there is none.
getPost(store, pid) ==
  IF pid \in DOMAIN store /\ ~store[pid].isDeleted THEN <<store[pid]>> ELSE <<>>

HiddenFromNobody(p, viewer) == FALSE

\* post.isHidden && !post.author._id.equals(userId), with no user for a
\* request that carries no valid token.
HiddenFrom(p, viewer) == p.isHidden /\ (viewer = Anonymous \/ p.author # viewer)

\* An ownership check that lets every authenticated actor through.
IsOwnerAnyUser(p, actor) == actor \in Users

\* checkOwnership(): resource.author.equals(req.user._id)
IsOwner(p, actor) == p.author = actor

Outcome(status, err, delta, doc) ==
  [status |-> status, err |-> err, delta |-> delta, doc |-> doc]

Fail(status, err) == Outcome(status, err, NoDelta, <<>>)

Mutated(status, p, d) == Outcome(status, "", d, <<ApplyDelta(p, d)>>)

\* postSchema.methods.toggleLike
toggleLike(p, userId) ==
  Mutated(200, p, [NoDelta EXCEPT !.field = "likes",
                                  !.op = ToggleOp(p.likes, userId),
                                  !.val = userId])

\* A toggleCommentLike that toggles the actor in the post's own likers.
toggleCommentLikeOnPost(p, commentId, userId) ==
  LET ci == IndexOfId(p.comments, commentId) IN
  IF ci = 0 THEN Fail(404, "comment")
  ELSE Mutated(200, p, [NoDelta EXCEPT !.field = "likes",
                          !.op = ToggleOp(p.likes, userId),
                          !.val = userId])

\* postSchema.methods.toggleCommentLike
toggleCommentLike(p, commentId, userId) ==
  LET ci == IndexOfId(p.comments, commentId) IN
  IF ci = 0 THEN Fail(404, "comment")
  ELSE Mutated(200, p, [NoDelta EXCEPT !.field = "likes", !.ci = ci,
                          !.op = ToggleOp(p.comments[ci].likes, userId),
                          !.val = userId])

\* A toggleReplyLike that looks the reply up under every comment of the post.
toggleReplyLikeAnywhere(p, commentId, replyId, userId) ==
  LET ci == IndexOfId(p.comments, commentId)
      holders == {i \in DOMAIN p.comments : IndexOfId(p.comments[i].replies, replyId) > 0}
  IN
  IF ci = 0 THEN Fail(404, "comment")
  ELSE IF holders = {} THEN Fail(404, "reply")
  ELSE LET hi == CHOOSE i \in holders : TRUE
           ri == IndexOfId(p.comments[hi].replies, replyId)
       IN Mutated(200, p, [NoDelta EXCEPT !.field = "likes", !.ci = hi, !.ri = ri,
                             !.op = ToggleOp(p.comments[hi].replies[ri].likes, userId),
                             !.val = userId])

\* postSchema.methods.toggleReplyLike
toggleReplyLike(p, commentId, replyId, userId) ==
  LET ci == IndexOfId(p.comments, commentId) IN
  IF ci = 0 THEN Fail(404, "comment")
  ELSE LET ri == IndexOfId(p.comments[ci].replies, replyId) IN
       IF ri = 0 THEN Fail(404, "reply")
       ELSE Mutated(200, p, [NoDelta EXCEPT !.field = "likes", !.ci = ci, !.ri = ri,
                               !.op = ToggleOp(p.comments[ci].replies[ri].likes, userId),
                               !.val = userId])

\* postSchema.methods.addComment
addComment(p, commentData) ==
  Mutated(201, p, [NoDelta EXCEPT !.field = "comments", !.op = "push",
                                  !.val = commentData])

\* An addReply without the check that the comment was found.
addReplyUnchecked(p, commentId, replyData) ==
  Mutated(201, p, [NoDelta EXCEPT !.field = "replies",
                                  !.ci = IndexOfId(p.comments, commentId),
                                  !.op = "push", !.val = replyData])

\* postSchema.methods.addReply
addReply(p, commentId, replyData) ==
  LET ci == IndexOfId(p.comments, commentId) IN
  IF ci = 0 THEN Fail(404, "comment")
  ELSE Mutated(201, p, [NoDelta EXCEPT !.field = "replies", !.ci = ci,
                                       !.op = "push", !.val = replyData])

\* A hide that writes the loaded flags back together.
HidePostWritingFlags(p, actor) ==
  IF p.author # actor THEN Fail(403, "owner")
  ELSE Mutated(200, p, [NoDelta EXCEPT !.hid = <<~p.isHidden>>, !.del = <<p.isDeleted>>])

\* PATCH /:postId/hide after getPost
hidePost(p, actor) ==
  IF ~IsOwner(p, actor) THEN Fail(403, "owner")
  ELSE Mutated(200, p, [NoDelta EXCEPT !.hid = <<~p.isHidden>>])

\* DELETE /:postId after getPost
deletePost(p, actor) ==
  IF ~IsOwner(p, actor) THEN Fail(403, "owner")
  ELSE Mutated(200, p, [NoDelta EXCEPT !.del = <<TRUE>>])

\* PUT /:postId after getPost: checkOwnership, validateRequest, the handler.
updatePost(p, actor, content, images) ==
  IF ~IsOwner(p, actor) THEN Fail(403, "owner")
  ELSE IF ~validateRequest(FALSE, MaxPostLen, content) THEN Fail(400, "validation")
  ELSE IF Trim(content) = <<>> /\ images = <<>> THEN Fail(400, "content")
  ELSE IF Len(images) > MaxImages THEN Fail(400, "images")
  ELSE IF \E i \in DOMAIN images : ~IsImageUrl(images[i]) THEN Fail(400, "url")
  ELSE Mutated(200, p,
         [NoDelta EXCEPT
            !.content = IF Trim(content) = p.content THEN <<>> ELSE <<Trim(content)>>,
            !.images = IF images = p.images THEN <<>> ELSE <<images>>])

\* The part of a post route between getPost and save(), on what getPost loaded.
Handle(r, loaded, freshId) ==
  IF loaded = <<>> THEN Fail(404, "post")
  ELSE LET p == loaded[1] IN
    CASE r.op = "hide" -> hidePost(p, r.actor)
      [] r.op = "delete" -> deletePost(p, r.actor)
      [] r.op = "update" -> updatePost(p, r.actor, r.content, r.images)
      [] r.op = "comment" /\ ~validateRequest(TRUE, MaxCommentLen, r.content) ->
           Fail(400, "validation")
      [] r.op = "reply" /\ ~validateRequest(TRUE, MaxReplyLen, r.content) ->
           Fail(400, "validation")
      [] OTHER ->
           IF HiddenFrom(p, r.actor) THEN Fail(404, "post")
           ELSE CASE r.op = "like" -> toggleLike(p, r.actor)
                  [] r.op = "likeComment" -> toggleCommentLike(p, r.cid, r.actor)
                  [] r.op = "likeReply" -> toggleReplyLike(p, r.cid, r.rid, r.actor)
                  [] r.op = "comment" ->
                       addComment(p, NewComment(freshId, r.actor, Trim(r.content)))
                  [] r.op = "reply" ->
                       addReply(p, r.cid, NewReply(freshId, r.actor, Trim(r.content)))

NeedsId(op) == op \in {"comment", "reply"}

\* The liker set of the target a path names in a document (empty when the
\* path names nothing).
TargetLikers(p, cid, rid) ==
  IF cid = 0 THEN Range(p.likes)
  ELSE LET ci == IndexOfId(p.comments, cid) IN
    IF ci = 0 THEN {}
    ELSE IF rid = 0 THEN Range(p.comments[ci].likes)
    ELSE LET ri == IndexOfId(p.comments[ci].replies, rid) IN
      IF ri = 0 THEN {} ELSE Range(p.comments[ci].replies[ri].likes)

----------------------------------------------------------------------------
(* A mutating post route from getPost to its response *)

\* A save() that writes the whole loaded document over the stored one.
ResultOverwrite(store, loaded, r, freshId, stale) ==
  LET out == Handle(r, loaded, freshId) IN
  IF out.doc = <<>>
    THEN [status |-> out.status, err |-> out.err, store |-> store,
          inc |-> FALSE, body |-> <<>>]
    ELSE [status |-> out.status, err |-> "",
          store |-> [store EXCEPT ![r.pid] = out.doc[1]],
          inc |-> FALSE, body |-> <<ToJSON(out.doc[1])>>]

\* What a route does with the document getPost loaded: its status, the
\* store after save(), the document it reports, and whether __v moved.
Result(store, loaded, r, freshId, stale) ==
  LET out == Handle(r, loaded, freshId) IN
  IF out.doc = <<>>
    THEN [status |-> out.status, err |-> out.err, store |-> store,
          inc |-> FALSE, body |-> <<>>]
  ELSE IF ~preValidate(out.doc[1])
    THEN [status |-> 500, err |-> "validate", store |-> store,
          inc |-> FALSE, body |-> <<>>]
  ELSE LET s == SaveDoc(store[r.pid], out.delta, stale) IN
    [status |-> IF s.ok THEN out.status ELSE 500,
     err |-> IF s.ok THEN "" ELSE "save",
     store |-> [store EXCEPT ![r.pid] = s.doc],
     inc |-> s.inc,
     body |-> IF s.ok THEN <<ToJSON(out.doc[1])>> ELSE <<>>]

\* A route served start to end with no other request in between.
Served(store, r, freshId) == Result(store, getPost(store, r.pid), r, freshId, FALSE)

\* The auth middleware: a request passes with a valid token of a stored
\* user, and is answered 401 otherwise.
auth(actor) == actor \in Users

\* A mutating post route from auth on.
Requested(store, r, freshId) ==
  IF ~auth(r.actor)
    THEN [status |-> 401, err |-> "auth", store |-> store, inc |-> FALSE, body |-> <<>>]
    ELSE Served(store, r, freshId)

UsesId(store, r, freshId) ==
  NeedsId(r.op) /\ Served(store, r, freshId).status = 201

Serve(r) ==
  /\ posts' = Served(posts, r, nextId).store
  /\ nextId' = IF UsesId(posts, r, nextId) THEN nextId + 1 ELSE nextId
  /\ UNCHANGED <<clock, reqs>>
  /\ UNCHANGED others

LikeReq(actor, pid) == Req("like", actor, pid, 0, 0, <<>>, <<>>)

LikeCommentReq(actor, pid, cid) == Req("likeComment", actor, pid, cid, 0, <<>>, <<>>)

LikeReplyReq(actor, pid, cid, rid) == Req("likeReply", actor, pid, cid, rid, <<>>, <<>>)

CommentReqOf(actor, pid, content) == Req("comment", actor, pid, 0, 0, content, <<>>)

ReplyReqOf(actor, pid, cid, content) == Req("reply", actor, pid, cid, 0, content, <<>>)

\* A comment and a reply request with a one-letter text.
CommentReq(actor, pid) == CommentReqOf(actor, pid, <<"a">>)

ReplyReq(actor, pid, cid) == ReplyReqOf(actor, pid, cid, <<"a">>)

HideReq(actor, pid) == Req("hide", actor, pid, 0, 0, <<>>, <<>>)

DeleteReq(actor, pid) == Req("delete", actor, pid, 0, 0, <<>>, <<>>)

UpdateReq(actor, pid, content, images) ==
  Req("update", actor, pid, 0, 0, content, images)

LikePost(actor, pid) == Serve(LikeReq(actor, pid))

LikeComment(actor, pid, cid) == Serve(LikeCommentReq(actor, pid, cid))

LikeReply(actor, pid, cid, rid) == Serve(LikeReplyReq(actor, pid, cid, rid))

AddComment(actor, pid) == Serve(CommentReq(actor, pid))

AddReply(actor, pid, cid) == Serve(ReplyReq(actor, pid, cid))

HidePost(actor, pid) == Serve(HideReq(actor, pid))

DeletePost(actor, pid) == Serve(DeleteReq(actor, pid))

\* POST /api/posts at time now: validateRequest, the handler's checks, then
\* new Post(...).save().  [status, err, store].
createPost(store, actor, content, images, now) ==
  LET reject(err) == [status |-> 400, err |-> err, store |-> store] IN
  IF ~validateRequest(FALSE, MaxPostLen, content) THEN reject("validation")
  ELSE IF Trim(content) = <<>> /\ images = <<>> THEN reject("content")
  ELSE IF Len(images) > MaxImages THEN reject("images")
  ELSE IF \E i \in DOMAIN images : ~IsImageUrl(images[i]) THEN reject("url")
  ELSE [status |-> 201, err |-> "",
        store |-> Append(store, NewPost(Len(store) + 1, actor, Trim(content), images, now))]

\* A create route that hands the whole request body to new Post(...).
CreateFromWholeBody(store, actor, body, now) ==
  LET res == createPost(store, actor, body.content, body.images, now) IN
  IF res.status # 201 THEN res
  ELSE [res EXCEPT !.store[Len(res.store)] =
          [@ EXCEPT !.author = body.author, !.isHidden = body.isHidden,
                    !.isDeleted = body.isDeleted, !.likes = body.likes]]

\* POST /api/posts on a request body: the handler reads content and images
\* from the body and the author from the token, and nothing else.
CreateFromBody(store, actor, body, now) ==
  createPost(store, actor, body.content, body.images, now)

CreatePost(actor, content, images) ==
  /\ Len(posts) < MaxPosts
  /\ LET res == createPost(posts, actor, content, images, clock) IN
     /\ posts' = res.store
     /\ clock' = IF res.status = 201 THEN clock + 1 ELSE clock
  /\ UNCHANGED <<nextId, reqs>>
  /\ UNCHANGED others

\* DELETE /api/users/account: Post.updateMany({author}, {isHidden: true}).
\* The isActive flag it also clears is read by no route of the model.
DeactivateAccount(actor) ==
  /\ posts' = [i \in DOMAIN posts |->
                 IF posts[i].author = actor
                   THEN [posts[i] EXCEPT !.isHidden = TRUE] ELSE posts[i]]
  /\ UNCHANGED <<nextId, clock, reqs>>
  /\ UNCHANGED others

\* Time passes between requests: Date.now() grows.  Posts are created one
\* tick apart, so at most MaxPosts of the clock's steps are not ticks.
Tick ==
  /\ clock < MaxTicks + Len(posts)
  /\ clock' = clock + 1
  /\ UNCHANGED <<posts, nextId, reqs>>
  /\ UNCHANGED others

----------------------------------------------------------------------------
(* actionRateLimit and a route behind it *)

\* The closure actionRateLimit(maxActions, windowMs) returns: its two
\* parameters and its Map attempts, keyed by <<userId, window>>.
NewLimiter(maxActions, windowMs) ==
  [maxActions |-> maxActions, windowMs |-> windowMs, attempts |-> <<>>]

\* The limiter of a route whose requests the model does not count.
LimiterAtRest ==
  /\ limiter = NewLimiter(MaxActions, MaxWindow)
  /\ admitted = <<>>

\* A limiter that keeps one count per window for all users together.
actionRateLimitOneCount(lim, userId, now) ==
  LET currentWindow == now \div lim.windowMs
      windowKey == <<"u1", currentWindow>>
      kept == {k \in DOMAIN lim.attempts : ~(k[2] < currentWindow - 1)}
      currentAttempts == IF windowKey \in kept THEN lim.attempts[windowKey] ELSE 0
  IN IF currentAttempts >= lim.maxActions
       THEN [pass |-> FALSE,
             limiter |-> [lim EXCEPT !.attempts = [k \in kept |-> lim.attempts[k]]]]
       ELSE [pass |-> TRUE,
             limiter |-> [lim EXCEPT !.attempts =
                            [k \in kept \cup {windowKey} |->
                               IF k = windowKey THEN currentAttempts + 1
                               ELSE lim.attempts[k]]]]

\* The middleware: keys of windows before the previous one are deleted, the
\* count of the user's current window is compared with maxActions, and the
\* request either is answered 429 or is counted and passed on.
actionRateLimit(lim, userId, now) ==
  LET currentWindow == now \div lim.windowMs
      windowKey == <<userId, currentWindow>>
      kept == {k \in DOMAIN lim.attempts : ~(k[2] < currentWindow - 1)}
      currentAttempts == IF windowKey \in kept THEN lim.attempts[windowKey] ELSE 0
  IN IF currentAttempts >= lim.maxActions
       THEN [pass |-> FALSE,
             limiter |-> [lim EXCEPT !.attempts = [k \in kept |-> lim.attempts[k]]]]
       ELSE [pass |-> TRUE,
             limiter |-> [lim EXCEPT !.attempts =
                            [k \in kept \cup {windowKey} |->
                               IF k = windowKey THEN currentAttempts + 1
                               ELSE lim.attempts[k]]]]

\* POST /:postId/like from auth to the answer: getPost, then the limiter,
\* then the handler.
LimitedLike(store, lim, actor, pid, now) ==
  LET loaded == getPost(store, pid) IN
  IF loaded = <<>>
    THEN [status |-> 404, store |-> store, limiter |-> lim, pass |-> FALSE]
  ELSE LET gate == actionRateLimit(lim, actor, now) IN
    IF ~gate.pass
      THEN [status |-> 429, store |-> store, limiter |-> gate.limiter, pass |-> FALSE]
      ELSE LET res == Served(store, LikeReq(actor, pid), 0) IN
           [status |-> res.status, store |-> res.store, limiter |-> gate.limiter,
            pass |-> TRUE]

\* The route as a step; admitted records who passed the limiter and when.
LimitedLikePost(actor, pid) ==
  LET res == LimitedLike(posts, limiter, actor, pid, clock) IN
  /\ posts' = res.store
  /\ limiter' = res.limiter
  /\ admitted' = IF res.pass THEN Append(admitted, [actor |-> actor, at |-> clock])
                 ELSE admitted
  /\ UNCHANGED <<nextId, clock, reqs, accounts, calls, issued>>

----------------------------------------------------------------------------
(* The password-reset routes of the auth router.  Each handler is a findOne
   and, when it found the user, a save() of the fields it set; requests
   overlap between the two.  A generated one-time password or reset token
   is taken to differ from every one generated before: the value is its
   number in issued, which also records for each value who it was issued to,
   when, and how many requests have succeeded with it. *)

\* The reset fields of a user document with no reset under way (undefined
\* fields are 0) and a stored password hash.
NewAccount(password) ==
  [password |-> <<"bcrypt", password>>,
   passwordResetOTP |-> 0, passwordResetExpires |-> 0,
   passwordResetToken |-> 0, passwordResetTokenExpires |-> 0]

NoCall == [phase |-> "idle", kind |-> "none", email |-> "none", given |-> 0,
           newPassword |-> "none", at |-> 0]

AccountsAtRest ==
  /\ accounts = [u \in Users |-> NewAccount("p0")]
  /\ calls = [s \in Slots |-> NoCall]
  /\ issued = <<>>

\* Values the in-flight verify-otp requests are still to generate.
TokensToCome == Cardinality({s \in Slots : calls[s].phase = "found" /\ calls[s].kind = "verify"})

\* POST /forgot-password for the email of a stored user.
ForgotPassword(email) ==
  /\ Len(issued) + TokensToCome < MaxMinted
  /\ LET otp == Len(issued) + 1 IN
     /\ accounts' = [accounts EXCEPT ![email].passwordResetOTP = otp,
                                     ![email].passwordResetExpires = clock + OtpLife]
     /\ issued' = Append(issued, [kind |-> "otp", user |-> email, at |-> clock,
                                  from |-> 0, uses |-> 0])
  /\ UNCHANGED <<posts, nextId, clock, reqs, limiter, admitted, calls>>

\* The query of verify-otp: a user with this email, this one-time password
\* and an expiry in the future.
verifyOtpFinds(store, email, otp, now) ==
  /\ email \in DOMAIN store
  /\ otp # 0
  /\ store[email].passwordResetOTP = otp
  /\ store[email].passwordResetExpires > now

\* The query of reset-password: a user with this email, this reset token
\* and an expiry in the future.
resetPasswordFinds(store, email, token, now) ==
  /\ email \in DOMAIN store
  /\ token # 0
  /\ store[email].passwordResetToken = token
  /\ store[email].passwordResetTokenExpires > now

\* POST /verify-otp up to the findOne that found the user (a findOne that
\* finds none is answered 400 and changes nothing).
VerifyOtpFind(s, email, otp) ==
  /\ calls[s].phase = "idle"
  /\ Len(issued) + TokensToCome < MaxMinted
  /\ verifyOtpFinds(accounts, email, otp, clock)
  /\ calls' = [calls EXCEPT ![s] = [NoCall EXCEPT !.phase = "found", !.kind = "verify",
                                                  !.email = email, !.given = otp,
                                                  !.at = clock]]
  /\ UNCHANGED <<posts, nextId, clock, reqs, limiter, admitted, accounts, issued>>

\* The rest of POST /verify-otp: a reset token is generated and saved with
\* its expiry, the one-time password fields are unset, the token is answered.
VerifyOtpSave(s) ==
  /\ calls[s].phase = "found" /\ calls[s].kind = "verify"
  /\ LET email == calls[s].email
         resetToken == Len(issued) + 1
     IN
     /\ accounts' = [accounts EXCEPT ![email].passwordResetToken = resetToken,
                                     ![email].passwordResetTokenExpires = clock + TokenLife,
                                     ![email].passwordResetOTP = 0,
                                     ![email].passwordResetExpires = 0]
     /\ issued' = Append([issued EXCEPT ![calls[s].given].uses = @ + 1],
                         [kind |-> "token", user |-> email, at |-> clock,
                          from |-> calls[s].given, uses |-> 0])
  /\ calls' = [calls EXCEPT ![s] = NoCall]
  /\ UNCHANGED <<posts, nextId, clock, reqs, limiter, admitted>>

\* POST /reset-password up to the findOne that found the user.
ResetPasswordFind(s, email, token, newPassword) ==
  /\ calls[s].phase = "idle"
  /\ resetPasswordFinds(accounts, email, token, clock)
  /\ calls' = [calls EXCEPT ![s] = [NoCall EXCEPT !.phase = "found", !.kind = "reset",
                                                  !.email = email, !.given = token,
                                                  !.newPassword = newPassword,
                                                  !.at = clock]]
  /\ UNCHANGED <<posts, nextId, clock, reqs, limiter, admitted, accounts, issued>>

\* The rest of POST /reset-password: the password is set (and hashed by the
\* pre-save hook) and the token fields are unset.
ResetPasswordSave(s) ==
  /\ calls[s].phase = "found" /\ calls[s].kind = "reset"
  /\ LET email == calls[s].email IN
     /\ accounts' = [accounts EXCEPT ![email].password = <<"bcrypt", calls[s].newPassword>>,
                                     ![email].passwordResetToken = 0,
                                     ![email].passwordResetTokenExpires = 0]
     /\ issued' = [issued EXCEPT ![calls[s].given].uses = @ + 1]
  /\ calls' = [calls EXCEPT ![s] = NoCall]
  /\ UNCHANGED <<posts, nextId, clock, reqs, limiter, admitted>>

----------------------------------------------------------------------------
(* The same routes as two steps, so that requests overlap: getPost loads the
   document; the rest of the route runs on the loaded copy and ends in the
   one update save() sends.  Up to |Slots| requests are in flight; a round
   ends when all of them have answered. *)

NoReq == Req("none", "none", 0, 0, 0, <<>>, <<>>)

IdleSlot ==
  [phase |-> "idle", r |-> NoReq, loaded |-> <<>>, stale |-> FALSE,
   status |-> 0, wasLiked |-> FALSE, newId |-> 0, late |-> FALSE]

InFlightAdds == Cardinality({t \in Slots : reqs[t].phase = "loaded" /\ NeedsId(reqs[t].r.op)})

\* auth and getPost of a route: 404 at once when there is no such post.
Start(s, r) ==
  /\ reqs[s].phase = "idle"
  /\ \A t \in Slots : t < s => reqs[t].phase # "idle"
  /\ LET loaded == getPost(posts, r.pid) IN
     reqs' = [reqs EXCEPT ![s] =
                IF loaded = <<>>
                  THEN [IdleSlot EXCEPT !.phase = "done", !.r = r, !.status = 404]
                  ELSE [IdleSlot EXCEPT !.phase = "loaded", !.r = r, !.loaded = loaded]]
  /\ UNCHANGED <<posts, nextId, clock>>
  /\ UNCHANGED others

\* The rest of the route: checks, mutation of the loaded copy, save(), answer.
Finish(s) ==
  /\ reqs[s].phase = "loaded"
  /\ LET q == reqs[s]
         res == Result(posts, q.loaded, q.r, nextId, q.stale)
         used == NeedsId(q.r.op) /\ res.status = 201
     IN
     /\ posts' = res.store
     /\ nextId' = IF used THEN nextId + 1 ELSE nextId
     /\ reqs' = [t \in Slots |->
                   IF t = s
                     THEN [IdleSlot EXCEPT
                             !.phase = "done", !.r = q.r, !.status = res.status,
                             !.stale = q.stale,
                             !.late = posts[q.r.pid].isDeleted,
                             !.wasLiked = q.r.actor \in
                                TargetLikers(q.loaded[1], q.r.cid, q.r.rid),
                             !.newId = IF used THEN nextId ELSE 0]
                   ELSE IF reqs[t].phase = "loaded" /\ reqs[t].r.pid = q.r.pid /\ res.inc
                     THEN [reqs[t] EXCEPT !.stale = TRUE]
                   ELSE reqs[t]]
  /\ UNCHANGED clock
  /\ UNCHANGED others

EndRound ==
  /\ \A s \in Slots : reqs[s].phase # "loaded"
  /\ \E s \in Slots : reqs[s].phase = "done"
  /\ reqs' = [s \in Slots |-> IdleSlot]
  /\ UNCHANGED <<posts, nextId, clock>>
  /\ UNCHANGED others

----------------------------------------------------------------------------
(* Read routes: functions of the store and the request *)

\* GET /:postId
GetPost(store, viewer, pid) ==
  LET loaded == getPost(store, pid) IN
  IF loaded = <<>> \/ HiddenFrom(loaded[1], viewer)
    THEN [status |-> 404, body |-> <<>>]
    ELSE [status |-> 200, body |-> <<ToJSON(loaded[1])>>]

\* GET /:postId/likes: the status and the reported total.
GetLikes(store, viewer, pid) ==
  LET loaded == getPost(store, pid) IN
  IF loaded = <<>> \/ HiddenFrom(loaded[1], viewer)
    THEN [status |-> 404, total |-> 0]
    ELSE [status |-> 200, total |-> Len(loaded[1].likes)]

MatchesCriteriaKeepDeleted(p, author, userId) ==
  /\ author # Anonymous => p.author = author
  /\ IF userId # Anonymous THEN (~p.isHidden \/ p.author = userId) ELSE ~p.isHidden

\* matchCriteria of findVisiblePosts; author and userId are Anonymous when
\* the option is null.
MatchesCriteria(p, author, userId) ==
  /\ ~p.isDeleted
  /\ author # Anonymous => p.author = author
  /\ IF userId # Anonymous THEN (~p.isHidden \/ p.author = userId) ELSE ~p.isHidden

\* sortCriteria of findVisiblePosts: the document paths sorted on, all descending.
SortCriteria(sortBy) ==
  CASE sortBy = "likes" -> <<"likesCount", "createdAt">>
    [] sortBy = "comments" -> <<"commentsCount", "createdAt">>
    [] OTHER -> <<"createdAt">>

\* The value the database sorts a stored document on.  likesCount and
\* commentsCount are virtuals of the schema, not stored paths: every stored
\* document lacks them and compares equal on them.
StoredSortValue(p, path) == IF path = "createdAt" THEN p.createdAt ELSE 0

SortKey(p, criteria) == [i \in DOMAIN criteria |-> StoredSortValue(p, criteria[i])]

\* Keys of equal length, compared position by position.
RECURSIVE LexGreater(_, _)
LexGreater(a, b) ==
  /\ a # <<>>
  /\ \/ Head(a) > Head(b)
     \/ Head(a) = Head(b) /\ LexGreater(Tail(a), Tail(b))

\* The identifiers of a key function in descending order of their keys.
RECURSIVE SortDesc(_)
SortDesc(keys) ==
  IF DOMAIN keys = {} THEN <<>>
  ELSE LET top == CHOOSE x \in DOMAIN keys :
                    \A y \in DOMAIN keys : ~LexGreater(keys[y], keys[x])
       IN <<top>> \o SortDesc([y \in DOMAIN keys \ {top} |-> keys[y]])

Min(a, b) == IF a < b THEN a ELSE b

\* .skip(skip).limit(limit)
SkipLimit(seq, skip, limit) == SubSeq(seq, skip + 1, Min(skip + limit, Len(seq)))

\* A findVisiblePosts whose first page is page 0.
findVisiblePostsZeroBased(store, page, limit, author, userId, sortBy) ==
  LET skip == page * limit
      matched == {i \in DOMAIN store : MatchesCriteria(store[i], author, userId)}
      order == SortDesc([i \in matched |-> SortKey(store[i], SortCriteria(sortBy))])
      found == SkipLimit(order, skip, limit)
  IN [k \in DOMAIN found |-> ToJSON(store[found[k]])]

\* postSchema.statics.findVisiblePosts
findVisiblePosts(store, page, limit, author, userId, sortBy) ==
  LET skip == (page - 1) * limit
      matched == {i \in DOMAIN store : MatchesCriteria(store[i], author, userId)}
      order == SortDesc([i \in matched |-> SortKey(store[i], SortCriteria(sortBy))])
      found == SkipLimit(order, skip, limit)
  IN [k \in DOMAIN found |-> ToJSON(store[found[k]])]

\* GET /api/posts
ListFeed(store, viewer, sortBy, page, limit) ==
  findVisiblePosts(store, page, limit, Anonymous, viewer, sortBy)

\* GET /api/posts/user/:username and GET /api/users/:userId/posts
ListUserPosts(store, viewer, author, page, limit) ==
  findVisiblePosts(store, page, limit, author, viewer, "createdAt")

\* A has-more flag that is set on every page that holds a post.
HasMoreUnlessEmpty(list, limit) == list # <<>>

\* hasMore of the pagination object: posts.length === parseInt(limit)
HasMore(list, limit) == Len(list) = limit

\* The answer of a listing route.  The database refuses a negative skip, the
\* error is caught by the route and answered 500 without a pagination object.
ListResponse(page, limit, list) ==
  IF (page - 1) * limit < 0
    THEN [status |-> 500, posts |-> <<>>, pagination |-> <<>>]
    ELSE [status |-> 200, posts |-> list,
          pagination |-> <<[page |-> page, hasMore |-> HasMore(list, limit)]>>]

\* GET /api/posts with its query parameters
GetFeed(store, viewer, sortBy, page, limit) ==
  ListResponse(page, limit,
    IF (page - 1) * limit < 0 THEN <<>> ELSE ListFeed(store, viewer, sortBy, page, limit))

\* GET /api/users/:userId/posts with its query parameters
GetUserPosts(store, viewer, author, page, limit) ==
  ListResponse(page, limit,
    IF (page - 1) * limit < 0 THEN <<>> ELSE ListUserPosts(store, viewer, author, page, limit))

\* A trending list over posts of any age.
TrendingAllTime(store, limit, now) ==
  LET matched == {i \in DOMAIN store : ~store[i].isDeleted /\ ~store[i].isHidden}
      order == SortDesc([i \in matched |->
                 <<likesCount(store[i]), commentsCount(store[i]), store[i].createdAt>>])
      found == SkipLimit(order, 0, limit)
  IN [k \in DOMAIN found |-> ToJSON(store[found[k]])]

\* GET /api/posts/trending at time now
Trending(store, limit, now) ==
  LET matched == {i \in DOMAIN store :
                    /\ ~store[i].isDeleted
                    /\ ~store[i].isHidden
                    /\ store[i].createdAt >= now - Day}
      order == SortDesc([i \in matched |->
                 <<likesCount(store[i]), commentsCount(store[i]), store[i].createdAt>>])
      found == SkipLimit(order, 0, limit)
  IN [k \in DOMAIN found |-> ToJSON(store[found[k]])]

\* A trending list that also keeps the hidden posts of the viewer.
GetTrendingOwnHidden(store, viewer, limit, now) ==
  LET matched == {i \in DOMAIN store :
                    /\ ~store[i].isDeleted
                    /\ ~store[i].isHidden \/ store[i].author = viewer
                    /\ store[i].createdAt >= now - Day}
      order == SortDesc([i \in matched |->
                 <<likesCount(store[i]), commentsCount(store[i]), store[i].createdAt>>])
      found == SkipLimit(order, 0, limit)
  IN [k \in DOMAIN found |-> ToJSON(store[found[k]])]

\* The trending route as a viewer calls it: optionalAuth sets req.user, the
\* handler never reads it.
GetTrending(store, viewer, limit, now) == Trending(store, limit, now)

RECURSIVE SumOver(_, _)
SumOver(f, S) ==
  IF S = {} THEN 0
  ELSE LET x == CHOOSE y \in S : TRUE IN f[x] + SumOver(f, S \ {x})

\* Statistics that count the deleted posts as well.
UserStatsWithDeleted(store, userId) ==
  LET mine == {i \in DOMAIN store : store[i].author = userId}
  IN <<Cardinality(mine),
       SumOver([i \in mine |-> Len(store[i].likes)], mine),
       SumOver([i \in mine |-> Len(store[i].comments)], mine)>>

\* GET /api/users/stats: <<postsCount, totalLikesReceived, totalCommentsReceived>>
UserStats(store, userId) ==
  LET mine == {i \in DOMAIN store : store[i].author = userId /\ ~store[i].isDeleted}
  IN <<Cardinality(mine),
       SumOver([i \in mine |-> Len(store[i].likes)], mine),
       SumOver([i \in mine |-> Len(store[i].comments)], mine)>>

\* The postsCount virtual of userSchema, populated by GET /api/users/profile/:username:
\* a count of the Post documents whose author is the user.
postsCount(store, user) ==
  Cardinality({i \in DOMAIN store : store[i].author = user})

----------------------------------------------------------------------------
(* Specifications *)

\* Identifiers a request may name for a comment or a reply: every identifier
\* handed out so far, and one that was never handed out.
EntryIds == 1..nextId

IdleReqs == [s \in Slots |-> IdleSlot]

\* One post, just created through POST /api/posts.
InitOnePost ==
  /\ posts = <<NewPost(1, "u1", <<"a">>, <<>>, 0)>>
  /\ nextId = 1
  /\ clock = 1
  /\ reqs = IdleReqs
  /\ LimiterAtRest
  /\ AccountsAtRest

\* One post, and the limiter of its like route built with some maxActions
\* and windowMs.
InitRate ==
  /\ posts = <<NewPost(1, "u1", <<"a">>, <<>>, 0)>>
  /\ nextId = 1
  /\ clock = 1
  /\ reqs = IdleReqs
  /\ limiter \in {NewLimiter(n, w) : n \in 1..MaxActions, w \in 1..MaxWindow}
  /\ admitted = <<>>
  /\ AccountsAtRest

NextRate ==
  \/ \E actor \in Users, pid \in DOMAIN posts : LimitedLikePost(actor, pid)
  \/ Tick

\* Like requests of two actors arriving at the limiter while time passes.
SpecRate == InitRate /\ [][NextRate]_vars

HasRoom(pid) == pid \in DOMAIN posts /\ EntryCount(posts[pid]) < MaxEntries

Next ==
  \/ \E actor \in Users, pid \in DOMAIN posts : LikePost(actor, pid)
  \/ \E actor \in Users, pid \in DOMAIN posts, cid \in EntryIds :
       LikeComment(actor, pid, cid)
  \/ \E actor \in Users, pid \in DOMAIN posts, cid \in EntryIds, rid \in EntryIds :
       LikeReply(actor, pid, cid, rid)
  \/ \E actor \in Users, pid \in DOMAIN posts : HasRoom(pid) /\ AddComment(actor, pid)
  \/ \E actor \in Users, pid \in DOMAIN posts, cid \in EntryIds :
       HasRoom(pid) /\ AddReply(actor, pid, cid)
  \/ \E actor \in Users, pid \in DOMAIN posts : HidePost(actor, pid)
  \/ \E actor \in Users, pid \in DOMAIN posts : DeletePost(actor, pid)

\* The engagement routes on one post, requests served one after another.
Spec == InitOnePost /\ [][Next]_vars

InitEmpty ==
  /\ posts = <<>>
  /\ nextId = 1
  /\ clock = 0
  /\ reqs = IdleReqs
  /\ LimiterAtRest
  /\ AccountsAtRest

FeedHasRoom(pid) == pid \in DOMAIN posts /\ Len(posts[pid].comments) < MaxFeedComments

NextFeed ==
  \/ \E actor \in Users : CreatePost(actor, <<"a">>, <<>>)
  \/ \E actor \in Users, pid \in PostIds : LikePost(actor, pid)
  \/ \E actor \in Users, pid \in PostIds : FeedHasRoom(pid) /\ AddComment(actor, pid)
  \/ \E actor \in Users, pid \in PostIds : HidePost(actor, pid)
  \/ \E actor \in Users, pid \in PostIds : DeletePost(actor, pid)
  \/ \E actor \in Users : DeactivateAccount(actor)

\* Several posts of several authors, requests served one after another.
SpecFeed == InitEmpty /\ [][NextFeed]_vars

NextTrend ==
  \/ \E actor \in Users : CreatePost(actor, <<"a">>, <<>>)
  \/ \E actor \in Users, pid \in PostIds : LikePost(actor, pid)
  \/ \E actor \in Users, pid \in PostIds : FeedHasRoom(pid) /\ AddComment(actor, pid)
  \/ \E actor \in Users, pid \in PostIds : HidePost(actor, pid)
  \/ \E actor \in Users, pid \in PostIds : DeletePost(actor, pid)
  \/ Tick

\* Several posts created at different times, liked, commented, hidden and
\* deleted while time passes.
SpecTrend == InitEmpty /\ [][NextTrend]_vars

\* Values a caller may present as a one-time password or a reset token:
\* every value generated so far.
Presented == 1..MaxMinted

NewPasswords == {"p1", "p2"}

NextReset ==
  \/ \E email \in Users : ForgotPassword(email)
  \/ \E s \in Slots, email \in Users, otp \in Presented : VerifyOtpFind(s, email, otp)
  \/ \E s \in Slots : VerifyOtpSave(s)
  \/ \E s \in Slots, email \in Users, token \in Presented, pw \in NewPasswords :
       ResetPasswordFind(s, email, token, pw)
  \/ \E s \in Slots : ResetPasswordSave(s)
  \/ Tick

\* The password-reset flow of two users, requests overlapping, time passing.
SpecReset == InitEmpty /\ [][NextReset]_vars

ConcHasRoom(pid) ==
  pid \in DOMAIN posts /\ EntryCount(posts[pid]) + InFlightAdds < MaxConcEntries

\* One post of u1 with a comment of u2 and under it a reply of u1: the store
\* after createPost, addComment and addReply.
InitThread ==
  /\ posts = <<[NewPost(1, "u1", <<"a">>, <<>>, 0) EXCEPT
                  !.comments = <<[NewComment(1, "u2", <<"a">>) EXCEPT
                                    !.replies = <<NewReply(2, "u1", <<"a">>)>>]>>]>>
  /\ nextId = 3
  /\ clock = 1
  /\ reqs = IdleReqs
  /\ LimiterAtRest
  /\ AccountsAtRest

ToggleRequests ==
  {LikeReq(a, 1) : a \in Users}
    \cup {LikeCommentReq(a, 1, 1) : a \in Users}
    \cup {LikeReplyReq(a, 1, 1, 2) : a \in Users}

NextLikes ==
  \/ \E s \in Slots, r \in ToggleRequests : Start(s, r)
  \/ \E s \in Slots : Finish(s)
  \/ EndRound

\* Overlapping like toggles at the three depths of one post.
SpecLikes == InitThread /\ [][NextLikes]_vars

AddRequests ==
  {CommentReq(a, 1) : a \in Users}
    \cup {ReplyReq(a, 1, cid) : a \in Users, cid \in EntryIds}

NextAdds ==
  \/ \E s \in Slots, r \in AddRequests : ConcHasRoom(r.pid) /\ Start(s, r)
  \/ \E s \in Slots : Finish(s)
  \/ EndRound

\* Overlapping addComment and addReply requests on one post.
SpecAdds == InitOnePost /\ [][NextAdds]_vars

LifeRequests ==
  {HideReq(a, 1) : a \in Users}
    \cup {DeleteReq(a, 1) : a \in Users}
    \cup {UpdateReq(a, 1, c, i) : a \in Users, c \in {<<"b">>}, i \in {<<>>, <<ImageUrl>>}}
    \cup {LikeReq(a, 1) : a \in Users}
    \cup {CommentReq("u2", 1)}

NextLife ==
  \/ \E s \in Slots, r \in LifeRequests :
       (NeedsId(r.op) => ConcHasRoom(r.pid)) /\ Start(s, r)
  \/ \E s \in Slots : Finish(s)
  \/ EndRound
  \/ \E actor \in Users : DeactivateAccount(actor)

\* Overlapping owner operations, account deactivation and engagement on one post.
SpecLife == InitOnePost /\ [][NextLife]_vars

----------------------------------------------------------------------------
(* Properties *)

Pages == 1..MaxPosts

Limits == 1..MaxPosts

Sorts == {"createdAt", "likes", "comments"}

ListedIds(list) == {list[k].id : k \in DOMAIN list}

NoDuplicates(seq) == \A i, j \in DOMAIN seq : i # j => seq[i] # seq[j]

\* Every like-toggle request an actor can address to a stored post: the post
\* itself, a comment, a reply; identifiers that name nothing included.
AllToggleRequests ==
  {LikeReq(a, pid) : a \in Users, pid \in DOMAIN posts}
    \cup {LikeCommentReq(a, pid, cid) : a \in Users, pid \in DOMAIN posts, cid \in EntryIds}
    \cup {LikeReplyReq(a, pid, cid, rid) :
            a \in Users, pid \in DOMAIN posts, cid \in EntryIds, rid \in EntryIds}

\* C1: for every actor and each of the three like targets of a post, a like
\* toggle that succeeds, followed at once by the same toggle of the same actor,
\* succeeds again and leaves the target's liker set, as a set, what it was
\* before the first of the two.
C1_TogglePairRestoresLikers ==
  \A r \in AllToggleRequests :
    LET once == Served(posts, r, nextId)
        twice == Served(once.store, r, nextId)
    IN once.status = 200 =>
         /\ twice.status = 200
         /\ TargetLikers(twice.store[r.pid], r.cid, r.rid)
              = TargetLikers(posts[r.pid], r.cid, r.rid)

\* A visible post liked at all three depths: each toggle has acted.
C1_Witness ==
  \E ci \in DOMAIN posts[1].comments :
    \E ri \in DOMAIN posts[1].comments[ci].replies :
      /\ ~posts[1].isDeleted /\ ~posts[1].isHidden
      /\ posts[1].likes # <<>>
      /\ posts[1].comments[ci].likes # <<>>
      /\ posts[1].comments[ci].replies[ri].likes # <<>>

BothAnswered(s, t) == s # t /\ reqs[s].phase = "done" /\ reqs[t].phase = "done"

\* C2: when two like toggles by different actors on the same post, at any
\* depths, have both answered 200, however their loads and saves interleaved,
\* each actor's membership in the stored liker set of their target is the
\* opposite of what it was in the document their request loaded.
C2_OverlappingTogglesBothStored ==
  \A s, t \in Slots :
    (/\ BothAnswered(s, t)
     /\ reqs[s].status = 200 /\ reqs[t].status = 200
     /\ reqs[s].r.actor # reqs[t].r.actor)
    => \A x \in {s, t} :
         (reqs[x].r.actor \in TargetLikers(posts[reqs[x].r.pid], reqs[x].r.cid, reqs[x].r.rid))
           = ~reqs[x].wasLiked

\* Two actors' toggles both answered 200 and one saved between the other's
\* load and save, once on the same target and once at different depths.
C2_Witness ==
  \E s, t \in Slots :
    /\ BothAnswered(s, t)
    /\ reqs[s].status = 200 /\ reqs[t].status = 200
    /\ reqs[s].r.actor # reqs[t].r.actor
    /\ reqs[s].stale
    /\ reqs[t].r.op = "likeReply"

\* C3: when two addComment / addReply requests on the same post have both
\* answered 201, however their loads and saves interleaved, the stored post
\* holds both new entries.
C3_OverlappingAddsBothStored ==
  \A s, t \in Slots :
    (/\ BothAnswered(s, t)
     /\ reqs[s].status = 201 /\ reqs[t].status = 201)
    => \A x \in {s, t} :
         LET p == posts[reqs[x].r.pid]
             id == reqs[x].newId
         IN IF reqs[x].r.op = "comment"
              THEN IndexOfId(p.comments, id) > 0
              ELSE LET ci == IndexOfId(p.comments, reqs[x].r.cid) IN
                   ci > 0 /\ IndexOfId(p.comments[ci].replies, id) > 0

\* A reply and a comment both answered 201, the reply saved between the
\* comment's load and save.
C3_Witness ==
  \E s, t \in Slots :
    /\ BothAnswered(s, t)
    /\ reqs[s].status = 201 /\ reqs[t].status = 201
    /\ reqs[s].r.op = "comment" /\ reqs[s].stale
    /\ reqs[t].r.op = "reply"

\* C4: a post whose isDeleted flag is set is returned to no viewer (author,
\* other user, anonymous) by single-post retrieval, by any page of the feed
\* under any sort, by any page of a per-author listing, or by trending.
C4_DeletedNeverReturned ==
  \A pid \in DOMAIN posts : posts[pid].isDeleted =>
    \A v \in Viewers :
      /\ GetPost(posts, v, pid).status = 404
      /\ \A page \in Pages, limit \in Limits :
           /\ \A sortBy \in Sorts : pid \notin ListedIds(ListFeed(posts, v, sortBy, page, limit))
           /\ \A a \in Users : pid \notin ListedIds(ListUserPosts(posts, v, a, page, limit))
           /\ pid \notin ListedIds(Trending(posts, limit, clock))

\* A deleted post beside a post the feed still returns.
C4_Witness ==
  \E pid, other \in DOMAIN posts :
    /\ posts[pid].isDeleted
    /\ other \in ListedIds(ListFeed(posts, Anonymous, "createdAt", 1, MaxPosts))

\* C5: a hidden, not deleted post is returned to its author by single-post
\* retrieval, by the feed and by the per-author listing; to every other
\* viewer, anonymous included, single-post retrieval answers 404 and no page
\* of the feed or of a per-author listing holds it.
C5_HiddenOnlyForAuthor ==
  \A pid \in DOMAIN posts : (posts[pid].isHidden /\ ~posts[pid].isDeleted) =>
    LET p == posts[pid] IN
    /\ GetPost(posts, p.author, pid).status = 200
    /\ GetPost(posts, p.author, pid).body[1].isHidden
    /\ \A sortBy \in Sorts : pid \in ListedIds(ListFeed(posts, p.author, sortBy, 1, MaxPosts))
    /\ pid \in ListedIds(ListUserPosts(posts, p.author, p.author, 1, MaxPosts))
    /\ \A v \in Viewers \ {p.author} :
         /\ GetPost(posts, v, pid).status = 404
         /\ \A page \in Pages, limit \in Limits :
              /\ \A sortBy \in Sorts :
                   pid \notin ListedIds(ListFeed(posts, v, sortBy, page, limit))
              /\ \A a \in Users :
                   pid \notin ListedIds(ListUserPosts(posts, v, a, page, limit))

\* A hidden post of one author beside a visible post of another.
C5_Witness ==
  \E pid, other \in DOMAIN posts :
    /\ posts[pid].isHidden /\ ~posts[pid].isDeleted
    /\ posts[other].author # posts[pid].author
    /\ ~posts[other].isHidden /\ ~posts[other].isDeleted

\* isVisible(post, viewer) as the specification states it.
IsVisible(p, viewer) == ~p.isDeleted /\ (~p.isHidden \/ viewer = p.author)

VisiblePostsOf(user, viewer) ==
  {i \in DOMAIN posts : posts[i].author = user /\ IsVisible(posts[i], viewer)}

\* C6: every read path includes a post for a viewer exactly when the post is
\* not deleted and is either not hidden or the viewer's own: single-post
\* retrieval, the feed, the per-author listing, the likers listing, the
\* statistics of a user and the postsCount of a user's public profile.
C6_OneVisibilityPredicate ==
  /\ \A v \in Viewers, pid \in DOMAIN posts :
       LET p == posts[pid] IN
       /\ (GetPost(posts, v, pid).status = 200) = IsVisible(p, v)
       /\ (GetLikes(posts, v, pid).status = 200) = IsVisible(p, v)
       /\ \A sortBy \in Sorts :
            (pid \in ListedIds(ListFeed(posts, v, sortBy, 1, MaxPosts))) = IsVisible(p, v)
       /\ (pid \in ListedIds(ListUserPosts(posts, v, p.author, 1, MaxPosts))) = IsVisible(p, v)
  /\ \A u \in Users : UserStats(posts, u)[1] = Cardinality(VisiblePostsOf(u, u))
  /\ \A u \in Users, v \in Viewers : postsCount(posts, u) = Cardinality(VisiblePostsOf(u, v))

CountOf(doc, sortBy) == IF sortBy = "likes" THEN doc.likesCount ELSE doc.commentsCount

\* C7: in every page of the feed sorted by likes (by comments), a post listed
\* before another has at least as many likes (comments), counted on the stored
\* collections at query time, and on equal counts is not older.
C7_FeedOrderedByCount ==
  \A v \in Viewers, sortBy \in {"likes", "comments"}, page \in Pages, limit \in Limits :
    LET list == ListFeed(posts, v, sortBy, page, limit) IN
    \A i, j \in DOMAIN list : i < j =>
      /\ CountOf(list[i], sortBy) = Len(IF sortBy = "likes" THEN posts[list[i].id].likes
                                                              ELSE posts[list[i].id].comments)
      /\ CountOf(list[i], sortBy) >= CountOf(list[j], sortBy)
      /\ CountOf(list[i], sortBy) = CountOf(list[j], sortBy)
           => list[i].createdAt >= list[j].createdAt

ReportsSizes(doc, store) ==
  /\ doc.likesCount = Len(store[doc.id].likes)
  /\ doc.commentsCount = Len(store[doc.id].comments)

AllAddRequests ==
  {CommentReq(a, pid) : a \in Users, pid \in DOMAIN posts}
    \cup {ReplyReq(a, pid, cid) : a \in Users, pid \in DOMAIN posts, cid \in EntryIds}

\* C8: after any sequence of toggles, comments and replies, every report of a
\* post carries as likesCount the length of the stored likes and as
\* commentsCount the length of the stored comments: the document a route
\* returns, the feed listing and the trending listing.
C8_CountsAreCollectionSizes ==
  /\ \A v \in Viewers, pid \in DOMAIN posts :
       LET got == GetPost(posts, v, pid) IN
       got.status = 200 => ReportsSizes(got.body[1], posts)
  /\ \A r \in AllToggleRequests \cup AllAddRequests :
       LET res == Served(posts, r, nextId) IN
       res.body # <<>> => ReportsSizes(res.body[1], res.store)
  /\ \A v \in Viewers, sortBy \in Sorts :
       LET list == ListFeed(posts, v, sortBy, 1, MaxPosts) IN
       \A k \in DOMAIN list : ReportsSizes(list[k], posts)
  /\ LET list == Trending(posts, MaxPosts, clock) IN
     \A k \in DOMAIN list : ReportsSizes(list[k], posts)

\* A listed post with likes, a comment and a reply under it.
C8_Witness ==
  /\ ~posts[1].isDeleted /\ ~posts[1].isHidden
  /\ Len(posts[1].likes) = 2
  /\ Len(posts[1].comments) = 1
  /\ posts[1].comments[1].replies # <<>>
  /\ Len(Trending(posts, MaxPosts, clock)) = 1

\* C9: after any sequence of requests served one after another on a post
\* created through the API, the likes of the post, of each comment and of each
\* reply hold no identifier twice.
C9_LikersHoldNoDuplicates ==
  \A pid \in DOMAIN posts :
    /\ NoDuplicates(posts[pid].likes)
    /\ \A ci \in DOMAIN posts[pid].comments :
         /\ NoDuplicates(posts[pid].comments[ci].likes)
         /\ \A ri \in DOMAIN posts[pid].comments[ci].replies :
              NoDuplicates(posts[pid].comments[ci].replies[ri].likes)

\* Both actors like a reply, and both like the post.
C9_Witness ==
  \E ci \in DOMAIN posts[1].comments :
    \E ri \in DOMAIN posts[1].comments[ci].replies :
      /\ Len(posts[1].comments[ci].replies[ri].likes) = 2
      /\ Len(posts[1].likes) = 2

\* C10: in every step, under any interleaving of loads and saves, every stored
\* post stays in the store, and a post whose isDeleted flag is set keeps it set.
C10_DeletionTerminal ==
  [][\A pid \in DOMAIN posts :
       /\ pid \in DOMAIN posts'
       /\ posts[pid].isDeleted => posts'[pid].isDeleted]_vars

\* A deleted post on which the owner's hide, loaded before the delete, was
\* saved after it and answered 200.
C10_Witness ==
  \E s \in Slots :
    /\ reqs[s].phase = "done" /\ reqs[s].status = 200 /\ reqs[s].late
    /\ reqs[s].r.op = "hide"
    /\ posts[1].isDeleted

\* Sample texts of a request body: absent or empty, blank, a letter, a letter
\* in surrounding blanks.
Texts == {<<>>, <<" ">>, <<"a">>, <<" ", "a", " ">>}

ImageLists == {<<>>, <<ImageUrl>>}

\* Every mutating request an actor can address to post pid.
RequestsTo(pid) ==
  {LikeReq(a, pid) : a \in Users}
    \cup {LikeCommentReq(a, pid, cid) : a \in Users, cid \in EntryIds}
    \cup {LikeReplyReq(a, pid, cid, rid) : a \in Users, cid \in EntryIds, rid \in EntryIds}
    \cup {CommentReqOf(a, pid, t) : a \in Users, t \in Texts}
    \cup {ReplyReqOf(a, pid, cid, t) : a \in Users, cid \in EntryIds, t \in Texts}
    \cup {UpdateReq(a, pid, t, i) : a \in Users, t \in Texts, i \in ImageLists}
    \cup {HideReq(a, pid) : a \in Users}
    \cup {DeleteReq(a, pid) : a \in Users}

\* C11: every request addressed to a post whose stored isDeleted flag is set
\* (a like toggle at any depth, addComment, addReply, updatePost, hidePost,
\* deletePost, whatever its actor, path and body, and getPost for any viewer)
\* answers 404 for the post and leaves the store as it was.
C11_DeletedPostAnswersNotFound ==
  \A pid \in DOMAIN posts : posts[pid].isDeleted =>
    /\ \A r \in RequestsTo(pid) :
         LET res == Served(posts, r, nextId) IN
         res.status = 404 /\ res.err = "post" /\ res.store = posts
    /\ \A v \in Viewers : GetPost(posts, v, pid).status = 404

\* A deleted post that holds likes, a comment and a reply to address.
C11_Witness ==
  /\ posts[1].isDeleted
  /\ posts[1].likes # <<>>
  /\ \E ci \in DOMAIN posts[1].comments : posts[1].comments[ci].replies # <<>>


Letters(n) == [i \in 1..n |-> "x"]

\* Reply texts around the limit: the sample texts, a text of exactly the
\* limit, one letter more, and a text of the limit after a leading blank.
ReplyTexts ==
  Texts \cup {Letters(MaxReplyLen), Letters(MaxReplyLen + 1), <<" ">> \o Letters(MaxReplyLen)}

\* A reply request whose post the actor can load and whose comment
\* identifier names no comment of the post.
MissingCommentReplies ==
  {r \in {ReplyReqOf(a, pid, cid, t) :
            a \in Users, pid \in DOMAIN posts, cid \in EntryIds, t \in ReplyTexts} :
     /\ ~posts[r.pid].isDeleted
     /\ ~HiddenFrom(posts[r.pid], r.actor)
     /\ IndexOfId(posts[r.pid].comments, r.cid) = 0}

\* C12 as stated: addReply against a comment identifier that names no comment
\* of the post answers 404 for the comment and leaves the stored post as it
\* was, for every reply content supplied.
C12_MissingCommentAlwaysNotFound ==
  \A r \in MissingCommentReplies :
    LET res == Served(posts, r, nextId) IN
    res.status = 404 /\ res.err = "comment" /\ res.store = posts

\* C12 as amended: addReply against a comment identifier that names no comment
\* of the post leaves the stored post as it was; it answers 404 for the comment
\* when the content is not blank and at most 200 characters long, and the
\* validation error 400 when the content is blank or longer.
C12_MissingCommentAfterValidation ==
  \A r \in MissingCommentReplies :
    LET res == Served(posts, r, nextId) IN
    /\ res.store = posts
    /\ IF Trim(r.content) # <<>> /\ Len(r.content) <= MaxReplyLen
         THEN res.status = 404 /\ res.err = "comment"
         ELSE res.status = 400 /\ res.err = "validation"

\* A post open to both actors with a comment and a reply under it: the
\* reply's identifier and the next unused one name no comment.
C12_Witness ==
  /\ ~posts[1].isDeleted /\ ~posts[1].isHidden
  /\ \E ci \in DOMAIN posts[1].comments : posts[1].comments[ci].replies # <<>>
  /\ Cardinality(MissingCommentReplies) >= 2 * Cardinality(ReplyTexts)


----------------------------------------------------------------------------
(* Like toggles by path on a post with two comments and a reply under each *)

\* The store after createPost by u1, two addComment and an addReply to each.
InitTwoThreads ==
  /\ posts = <<[NewPost(1, "u1", <<"a">>, <<>>, 0) EXCEPT
                  !.comments =
                    <<[NewComment(1, "u2", <<"a">>) EXCEPT
                         !.replies = <<NewReply(3, "u1", <<"a">>)>>],
                      [NewComment(2, "u1", <<"a">>) EXCEPT
                         !.replies = <<NewReply(4, "u2", <<"a">>)>>]>>]>>
  /\ nextId = 5
  /\ clock = 1
  /\ reqs = IdleReqs
  /\ LimiterAtRest
  /\ AccountsAtRest

NextPaths ==
  \/ \E actor \in Users : LikePost(actor, 1)
  \/ \E actor \in Users, cid \in EntryIds : LikeComment(actor, 1, cid)
  \/ \E actor \in Users, cid \in EntryIds, rid \in EntryIds : LikeReply(actor, 1, cid, rid)
  \/ \E actor \in Users : HidePost(actor, 1)
  \/ \E actor \in Users : DeletePost(actor, 1)

SpecPaths == InitTwoThreads /\ [][NextPaths]_vars

\* Like-toggle requests by path, to the stored posts and to an identifier
\* that names no post.
PathToggleRequests ==
  LET pids == 1..(Len(posts) + 1) IN
  {LikeReq(a, pid) : a \in Users, pid \in pids}
    \cup {LikeCommentReq(a, pid, cid) : a \in Users, pid \in pids, cid \in EntryIds}
    \cup {LikeReplyReq(a, pid, cid, rid) :
            a \in Users, pid \in pids, cid \in EntryIds, rid \in EntryIds}

HasComment(p, cid) == \E i \in DOMAIN p.comments : p.comments[i].id = cid

HasReplyUnder(p, cid, rid) ==
  \E i \in DOMAIN p.comments :
    /\ p.comments[i].id = cid
    /\ \E k \in DOMAIN p.comments[i].replies : p.comments[i].replies[k].id = rid

\* C13: a like toggle by path that fails to resolve changes nothing and names
\* the depth: no such post answers 404 for the post; on a post the actor can
\* reach, a comment identifier naming none of its comments answers 404 for
\* the comment, with or without a reply identifier; an existing comment with
\* a reply identifier naming none of its own replies (one of another comment
\* included) answers 404 for the reply; a path that resolves answers 200.
C13_ToggleReportsFailedDepth ==
  \A r \in PathToggleRequests :
    LET res == Served(posts, r, nextId) IN
    IF r.pid \notin DOMAIN posts
      THEN res.status = 404 /\ res.err = "post" /\ res.store = posts
    ELSE LET p == posts[r.pid] IN
      (~p.isDeleted /\ ~HiddenFrom(p, r.actor)) =>
        IF r.op # "like" /\ ~HasComment(p, r.cid)
          THEN res.status = 404 /\ res.err = "comment" /\ res.store = posts
        ELSE IF r.op = "likeReply" /\ ~HasReplyUnder(p, r.cid, r.rid)
          THEN res.status = 404 /\ res.err = "reply" /\ res.store = posts
        ELSE res.status = 200

\* The post is open to both actors and both replies carry likes: paths that
\* pair a comment with the other comment's reply are among the requests.
C13_Witness ==
  /\ ~posts[1].isDeleted /\ ~posts[1].isHidden
  /\ Len(posts[1].comments) = 2
  /\ \A ci \in DOMAIN posts[1].comments :
       /\ posts[1].comments[ci].replies # <<>>
       /\ posts[1].comments[ci].replies[1].likes # <<>>


\* Every owner-only request an actor can address to post pid.
OwnerRequestsTo(pid) ==
  {HideReq(a, pid) : a \in Users}
    \cup {DeleteReq(a, pid) : a \in Users}
    \cup {UpdateReq(a, pid, t, i) : a \in Users, t \in Texts \cup {<<"b">>}, i \in ImageLists}

\* C14: updatePost, hidePost and deletePost addressed to a stored, not deleted
\* post by an actor who is not its author answer 403 and leave the whole store
\* as it was; by the author, hidePost negates isHidden, deletePost sets
\* isDeleted, and updatePost with content or an image stores them.
C14_OwnerOnlyOperations ==
  \A pid \in DOMAIN posts : ~posts[pid].isDeleted =>
    \A r \in OwnerRequestsTo(pid) :
      LET res == Served(posts, r, nextId)
          p == posts[pid]
          q == res.store[pid]
      IN IF r.actor # p.author
           THEN res.status = 403 /\ res.store = posts
         ELSE CASE r.op = "hide" -> res.status = 200 /\ q.isHidden = ~p.isHidden
                [] r.op = "delete" -> res.status = 200 /\ q.isDeleted
                [] r.op = "update" ->
                     (Trim(r.content) # <<>> \/ r.images # <<>>) =>
                       /\ res.status = 200
                       /\ q.content = Trim(r.content)
                       /\ q.images = r.images

\* A post that its author has hidden and that holds a like and a comment of
\* the other actor.
C14_Witness ==
  /\ ~posts[1].isDeleted /\ posts[1].isHidden
  /\ \E i \in DOMAIN posts[1].likes : posts[1].likes[i] # posts[1].author
  /\ \E ci \in DOMAIN posts[1].comments : posts[1].comments[ci].author # posts[1].author


----------------------------------------------------------------------------
(* Creating and updating posts, update requests overlapping *)

SixImages == [i \in 1..(MaxImages + 1) |-> ImageUrl]

EditTexts == {<<>>, <<" ">>, <<"b">>}

EditImages == {<<>>, <<ImageUrl>>, SixImages}

EditRequests == {UpdateReq(a, 1, t, i) : a \in Users, t \in EditTexts, i \in EditImages}

NextEdit ==
  \/ \E t \in EditTexts, i \in EditImages : CreatePost("u2", t, i)
  \/ \E s \in Slots, r \in EditRequests : Start(s, r)
  \/ \E s \in Slots : Finish(s)
  \/ EndRound

SpecEdit == InitOnePost /\ [][NextEdit]_vars

\* C15: every stored post has content or at least one image, and at most 5
\* images; a create request, or an update request of the author, with blank
\* content and no image, or with more than 5 images, answers 400 and changes
\* nothing.
C15_StoredPostsAreValid ==
  /\ \A pid \in DOMAIN posts :
       /\ posts[pid].content # <<>> \/ posts[pid].images # <<>>
       /\ Len(posts[pid].images) <= MaxImages
  /\ \A a \in Users, t \in EditTexts, i \in EditImages :
       ((Trim(t) = <<>> /\ i = <<>>) \/ Len(i) > MaxImages) =>
         /\ LET res == createPost(posts, a, t, i, clock) IN
            res.status = 400 /\ res.store = posts
         /\ \A pid \in DOMAIN posts :
              (~posts[pid].isDeleted /\ posts[pid].author = a) =>
                LET res == Served(posts, UpdateReq(a, pid, t, i), nextId) IN
                res.status = 400 /\ res.store = posts


\* Comment texts around the limit, as ReplyTexts.
CommentTexts ==
  Texts \cup {Letters(MaxCommentLen), Letters(MaxCommentLen + 1),
              <<" ">> \o Letters(MaxCommentLen)}

Last(seq) == seq[Len(seq)]

\* C16: on a post the actor can reach, addComment (limit 500) and addReply to
\* an existing comment (limit 200) answer 201 exactly when the trimmed content
\* is not empty and at most the limit long, surrounding blanks not counted;
\* the entry stored is the trimmed content, and a refused request changes
\* nothing.
C16_ContentLimitOnTrimmedForm ==
  \A pid \in DOMAIN posts, a \in Users :
    (~posts[pid].isDeleted /\ ~HiddenFrom(posts[pid], a)) =>
      /\ \A t \in CommentTexts :
           LET res == Served(posts, CommentReqOf(a, pid, t), nextId)
               ok == Trim(t) # <<>> /\ Len(Trim(t)) <= MaxCommentLen
           IN /\ (res.status = 201) = ok
              /\ ok => Last(res.store[pid].comments).content = Trim(t)
              /\ ~ok => res.store = posts
      /\ \A t \in ReplyTexts, ci \in DOMAIN posts[pid].comments :
           LET res == Served(posts, ReplyReqOf(a, pid, posts[pid].comments[ci].id, t), nextId)
               ok == Trim(t) # <<>> /\ Len(Trim(t)) <= MaxReplyLen
           IN /\ (res.status = 201) = ok
              /\ ok => Last(res.store[pid].comments[ci].replies).content = Trim(t)
              /\ ~ok => res.store = posts


\* What identifies the entries of a comment or reply sequence, in order.
Entries(seq) == [i \in DOMAIN seq |-> <<seq[i].id, seq[i].author, seq[i].content>>]

IsPrefix(a, b) == Len(a) <= Len(b) /\ \A i \in DOMAIN a : a[i] = b[i]

\* The step appends exactly one comment to p, fresh and at the end.
AppendsComment(p, q) ==
  /\ Len(q.comments) = Len(p.comments) + 1
  /\ Last(q.comments).likes = <<>> /\ Last(q.comments).replies = <<>>
  /\ \A i \in DOMAIN p.comments : Len(q.comments[i].replies) = Len(p.comments[i].replies)

\* The step appends exactly one reply under one comment of p, fresh and at the end.
AppendsReply(p, q) ==
  /\ Len(q.comments) = Len(p.comments)
  /\ \E i \in DOMAIN p.comments :
       /\ Len(q.comments[i].replies) = Len(p.comments[i].replies) + 1
       /\ Last(q.comments[i].replies).likes = <<>>
       /\ \A k \in DOMAIN p.comments \ {i} :
            Len(q.comments[k].replies) = Len(p.comments[k].replies)

WithTargetLikes(p, cid, rid, likes) ==
  IF cid = 0 THEN [p EXCEPT !.likes = likes]
  ELSE LET ci == IndexOfId(p.comments, cid) IN
    IF ci = 0 THEN p
    ELSE IF rid = 0 THEN [p EXCEPT !.comments[ci].likes = likes]
    ELSE LET ri == IndexOfId(p.comments[ci].replies, rid) IN
      IF ri = 0 THEN p ELSE [p EXCEPT !.comments[ci].replies[ri].likes = likes]

\* The liker sequence of the target a path names (the path resolves).
TargetLikes(p, cid, rid) ==
  IF cid = 0 THEN p.likes
  ELSE LET ci == IndexOfId(p.comments, cid) IN
    IF rid = 0 THEN p.comments[ci].likes
    ELSE p.comments[ci].replies[IndexOfId(p.comments[ci].replies, rid)].likes

\* C18: a like toggle that answers 200 leaves every other post as it was, and
\* the post it addresses differs from the one before at most in the liker
\* sequence of the target: with that sequence put back, the document is the
\* one before (content, images, flags, the other liker sequences, the comment
\* and reply sequences and their contents).
C18_ToggleChangesOnlyTargetLikers ==
  \A r \in PathToggleRequests :
    LET res == Served(posts, r, nextId) IN
    res.status = 200 =>
      /\ \A pid \in DOMAIN posts \ {r.pid} : res.store[pid] = posts[pid]
      /\ DOMAIN res.store = DOMAIN posts
      /\ WithTargetLikes(res.store[r.pid], r.cid, r.rid,
                         TargetLikes(posts[r.pid], r.cid, r.rid)) = posts[r.pid]
      /\ TargetLikers(res.store[r.pid], r.cid, r.rid)
           # TargetLikers(posts[r.pid], r.cid, r.rid)

\* The post, a comment and a reply of the other comment all carry likes while
\* the post is open to toggles.
C18_Witness ==
  /\ ~posts[1].isDeleted /\ ~posts[1].isHidden
  /\ posts[1].likes # <<>>
  /\ posts[1].comments[1].likes # <<>>
  /\ posts[1].comments[2].replies[1].likes # <<>>
  /\ posts[1].comments[1].replies[1].likes = <<>>


\* C19: whoever asks, and whatever the limit, the trending list holds no
\* hidden post and no deleted post (the hidden posts of the viewer included),
\* and every viewer, signed in or not, gets the same list.
C19_TrendingHidesForEveryone ==
  \A limit \in Limits, viewer \in Viewers :
    LET res == GetTrending(posts, viewer, limit, clock) IN
    /\ \A k \in DOMAIN res :
         /\ ~posts[res[k].id].isHidden /\ ~posts[res[k].id].isDeleted
         /\ ~res[k].isHidden /\ ~res[k].isDeleted
    /\ res = GetTrending(posts, Anonymous, limit, clock)

\* A hidden post whose author asks for the trending list, which is not empty.
C19_Witness ==
  /\ Len(posts) = 2
  /\ posts[1].isHidden /\ ~posts[1].isDeleted /\ posts[1].likes # <<>>
  /\ GetTrending(posts, posts[1].author, MaxPosts, clock) # <<>>


\* Post i ranks above post j: more likes; as many likes and more comments; as
\* many of both and created later.  Counts are those of the stored sequences.
RanksAbove(i, j) ==
  LET li == Len(posts[i].likes)
      lj == Len(posts[j].likes)
      ci == Len(posts[i].comments)
      cj == Len(posts[j].comments)
  IN \/ li > lj
     \/ li = lj /\ ci > cj
     \/ li = lj /\ ci = cj /\ posts[i].createdAt > posts[j].createdAt

\* The posts the trending list may hold at this moment.
InWindow(i) ==
  /\ ~posts[i].isHidden /\ ~posts[i].isDeleted
  /\ posts[i].createdAt >= clock - Day

\* C20: the trending list holds at most limit posts, each one once, each
\* created within the day before the query, each reported with the sizes of
\* its stored like and comment sequences; no post of the list ranks above an
\* earlier one (likes, then comments, then creation time, all descending);
\* and a visible post of the window is left out only when the list is full
\* and no listed post ranks below it.
C20_TrendingRanksTheLastDay ==
  \A limit \in Limits :
    LET res == Trending(posts, limit, clock) IN
    /\ Len(res) <= limit
    /\ NoDuplicates([k \in DOMAIN res |-> res[k].id])
    /\ \A k \in DOMAIN res :
         /\ res[k].id \in DOMAIN posts
         /\ posts[res[k].id].createdAt >= clock - Day
         /\ posts[res[k].id].createdAt <= clock
         /\ res[k].likesCount = Len(posts[res[k].id].likes)
         /\ res[k].commentsCount = Len(posts[res[k].id].comments)
    /\ \A k \in DOMAIN res : k < Len(res) => ~RanksAbove(res[k + 1].id, res[k].id)
    /\ \A i \in DOMAIN posts :
         (InWindow(i) /\ i \notin ListedIds(res)) =>
           /\ Len(res) = limit
           /\ \A k \in DOMAIN res : ~RanksAbove(i, res[k].id)

\* Two visible posts of which the older has the likes and has left the
\* window: the list holds the newer one alone.
C20_Witness ==
  /\ Len(posts) = 2
  /\ \A i \in DOMAIN posts : ~posts[i].isHidden /\ ~posts[i].isDeleted
  /\ Len(posts[1].likes) > Len(posts[2].likes)
  /\ posts[2].comments # <<>>
  /\ ~InWindow(1) /\ InWindow(2)
  /\ ListedIds(Trending(posts, MaxPosts, clock)) = {2}


\* Page indices a client may send, zero included.
PageIndices == 0..MaxPosts

\* Every post the feed gives a viewer for a sort key, in the feed's order.
WholeFeed(viewer, sortBy) == ListFeed(posts, viewer, sortBy, 1, Len(posts) + 1)

\* Positions from..to of a list, counted from zero, as far as the list goes.
Window(list, from, to) ==
  [k \in 1..(Min(to + 1, Len(list)) - Min(from, Len(list))) |-> list[from + k]]

\* C21 as stated: page index p of size s holds positions p*s to p*s+s-1 of
\* the viewer's feed, page 0 being the first page.
C21_ZeroBasedWindow ==
  \A viewer \in Viewers, sortBy \in Sorts, p \in PageIndices, s \in Limits :
    GetFeed(posts, viewer, sortBy, p, s).posts
      = Window(WholeFeed(viewer, sortBy), p * s, p * s + s - 1)

\* C21 amended: pages are counted from one.  Page p >= 1 of size s is answered
\* 200 with exactly the posts at positions (p-1)*s to (p-1)*s+s-1 (counted
\* from zero) of the viewer's feed for the sort key; that feed holds the
\* posts visible to the viewer, each once, and for the recency sort it is in
\* descending creation time; page 0 is answered with an error and no posts.
C21_OneBasedWindow ==
  \A viewer \in Viewers, sortBy \in Sorts, s \in Limits :
    LET whole == WholeFeed(viewer, sortBy) IN
    /\ ListedIds(whole) = {i \in DOMAIN posts : IsVisible(posts[i], viewer)}
    /\ NoDuplicates([k \in DOMAIN whole |-> whole[k].id])
    /\ sortBy = "createdAt" =>
         \A k \in DOMAIN whole : k < Len(whole) => whole[k].createdAt >= whole[k + 1].createdAt
    /\ \A p \in PageIndices :
         LET res == GetFeed(posts, viewer, sortBy, p, s) IN
         IF p = 0 THEN res.status = 500 /\ res.posts = <<>>
         ELSE /\ res.status = 200
              /\ res.posts = Window(whole, (p - 1) * s, (p - 1) * s + s - 1)

\* Two posts visible to everyone: page 1 of size 1 holds the newer one and
\* page 2 the older one.
C21_Witness ==
  /\ Len(posts) = 2
  /\ \A i \in DOMAIN posts : ~posts[i].isHidden /\ ~posts[i].isDeleted
  /\ ListedIds(GetFeed(posts, Anonymous, "createdAt", 1, 1).posts) = {2}
  /\ ListedIds(GetFeed(posts, Anonymous, "createdAt", 2, 1).posts) = {1}


\* Pages a client may ask for, one past the last page that can hold a post.
AskedPages == 1..(MaxPosts + 1)

\* The claim of C22 about one listing route, given as the function from a
\* page and a size to the route's answer, and the posts the listing is of.
EndOfFeedSignalled(answer(_, _), visible) ==
  \A s \in Limits, p \in AskedPages :
    LET res == answer(p, s) IN
    /\ res.status = 200
    /\ res.pagination # <<>>
    /\ (~res.pagination[1].hasMore) = (Len(res.posts) < s)
    /\ Len(res.posts) < s =>
         \A q \in AskedPages : q > p => answer(q, s).posts = <<>>
    /\ ~res.pagination[1].hasMore =>
         visible \subseteq UNION {ListedIds(answer(q, s).posts) : q \in 1..p}

\* C22: on one store, a page (of the feed or of a user's posts) that holds
\* fewer posts than its size is followed by empty pages only; the page
\* reports hasMore = false exactly when it holds fewer posts than its size;
\* and every post visible to the viewer lies on the pages up to one that
\* reported hasMore = false.  Pages are those the route answers (from 1 on).
C22_ShortPageEndsFeed ==
  \A viewer \in Viewers :
    /\ \A sortBy \in Sorts :
         LET answer(p, s) == GetFeed(posts, viewer, sortBy, p, s) IN
         EndOfFeedSignalled(answer, {i \in DOMAIN posts : IsVisible(posts[i], viewer)})
    /\ \A author \in Users :
         LET answer(p, s) == GetUserPosts(posts, viewer, author, p, s) IN
         EndOfFeedSignalled(answer, VisiblePostsOf(author, viewer))

\* Two stored posts of which the anonymous viewer sees one: the first page
\* of size 2 is short, and the first page of size 1 is full and the last.
C22_Witness ==
  /\ Len(posts) = 2
  /\ Len(GetFeed(posts, Anonymous, "createdAt", 1, 2).posts) = 1
  /\ ~GetFeed(posts, Anonymous, "createdAt", 1, 2).pagination[1].hasMore
  /\ GetFeed(posts, Anonymous, "createdAt", 1, 1).pagination[1].hasMore
  /\ GetFeed(posts, Anonymous, "createdAt", 2, 1).posts = <<>>


\* How many requests of an actor passed the limiter at a time in [from, to).
AdmittedIn(actor, from, to) ==
  Cardinality({i \in DOMAIN admitted :
                 /\ admitted[i].actor = actor
                 /\ from <= admitted[i].at /\ admitted[i].at < to})

\* The start of the limiter's window that holds time t.
WindowStart(t) == (t \div limiter.windowMs) * limiter.windowMs

\* A request beyond the limit is answered 429 and changes no post.
RejectionChangesNothing ==
  \A actor \in Users, pid \in DOMAIN posts :
    LET res == LimitedLike(posts, limiter, actor, pid, clock) IN
    res.status = 429 => res.store = posts /\ ~res.pass

\* C23 as stated: in every period of length W an actor has at most N
\* admitted requests, a request beyond the limit is answered 429 before any
\* mutation, and the requests of others do not count.
C23_AtMostNInAnyPeriod ==
  /\ \A actor \in Users, t \in 0..clock :
       AdmittedIn(actor, t, t + limiter.windowMs) <= limiter.maxActions
  /\ RejectionChangesNothing

\* C23 amended: windows are aligned to the clock (window k is the period
\* [k*W, (k+1)*W)).  An actor has at most N admitted requests in each window,
\* hence at most 2N in any period of length W; a request to a post that
\* exists is answered 429 exactly when the actor's own admitted requests of
\* the current window number N, whatever the other actors did, and then no
\* post changes.
C23_AtMostNPerWindow ==
  /\ \A actor \in Users, t \in 0..clock :
       /\ AdmittedIn(actor, WindowStart(t), WindowStart(t) + limiter.windowMs)
            <= limiter.maxActions
       /\ AdmittedIn(actor, t, t + limiter.windowMs) <= 2 * limiter.maxActions
  /\ \A actor \in Users, pid \in DOMAIN posts :
       ~posts[pid].isDeleted =>
         (LimitedLike(posts, limiter, actor, pid, clock).status = 429)
           = (AdmittedIn(actor, WindowStart(clock), clock + 1) = limiter.maxActions)
  /\ RejectionChangesNothing

\* u1 has used up two windows in a row, so that more than N of its requests
\* lie within one period of length W, and is now refused while u2, who made
\* requests too, is not.
C23_Witness ==
  /\ limiter.windowMs > 1
  /\ AdmittedIn("u1", clock - 1, clock + 1) = 2 * limiter.maxActions
  /\ AdmittedIn("u2", clock, clock + 1) > 0
  /\ LimitedLike(posts, limiter, "u1", 1, clock).status = 429
  /\ LimitedLike(posts, limiter, "u2", 1, clock).status = 200


\* The posts of a user that are not deleted.
LivePostsOf(user) == {i \in DOMAIN posts : posts[i].author = user /\ ~posts[i].isDeleted}

\* C24: in every state the create, delete, like, comment, hide and
\* deactivate requests lead to, the statistics a user reads are the number
\* of the user's posts that are not deleted, the number of likes now stored
\* on those posts and the number of comments now stored on them.
C24_StatsRecomputedOnRead ==
  \A u \in Users :
    LET live == LivePostsOf(u)
        stats == UserStats(posts, u)
    IN /\ stats[1] = Cardinality(live)
       /\ stats[2] = Cardinality(UNION {{<<i, k>> : k \in DOMAIN posts[i].likes} : i \in live})
       /\ stats[3] = Cardinality(UNION {{<<i, k>> : k \in DOMAIN posts[i].comments} : i \in live})

\* A user with a deleted post that carries a like and a comment, and a post
\* that is not deleted and carries likes.
C24_Witness ==
  /\ Len(posts) = 2
  /\ posts[1].author = posts[2].author
  /\ posts[1].isDeleted /\ posts[1].likes # <<>> /\ posts[1].comments # <<>>
  /\ ~posts[2].isDeleted /\ Len(posts[2].likes) = 2
  /\ UserStats(posts, posts[1].author) = <<1, 2, 0>>


\* Every engagement request an actor can address to post pid.
EngagementRequestsTo(actor, pid) ==
  {LikeReq(actor, pid)}
    \cup {LikeCommentReq(actor, pid, cid) : cid \in EntryIds}
    \cup {LikeReplyReq(actor, pid, cid, rid) : cid \in EntryIds, rid \in EntryIds}
    \cup {CommentReqOf(actor, pid, t) : t \in Texts}
    \cup {ReplyReqOf(actor, pid, cid, t) : cid \in EntryIds, t \in Texts}

\* The request names targets the post holds and carries content the route
\* accepts.
WellFormed(p, r) ==
  CASE r.op = "like" -> TRUE
    [] r.op = "likeComment" -> HasComment(p, r.cid)
    [] r.op = "likeReply" -> HasReplyUnder(p, r.cid, r.rid)
    [] r.op = "comment" -> Trim(r.content) # <<>> /\ Len(r.content) <= MaxCommentLen
    [] r.op = "reply" ->
         HasComment(p, r.cid) /\ Trim(r.content) # <<>> /\ Len(r.content) <= MaxReplyLen

C26_LikersUniqueUnderInterleaving ==
  /\ C9_LikersHoldNoDuplicates
  /\ \A r \in ToggleRequests :
       LET res == Served(posts, r, nextId)
           before == Len(TargetLikes(posts[r.pid], r.cid, r.rid))
           after == Len(TargetLikes(res.store[r.pid], r.cid, r.rid))
       IN res.status = 200 => (after = before + 1 \/ after = before - 1)


\* An identifier that names no stored post.
NoSuchPost == Len(posts) + 1

\* C27: to an actor who is not its author, a hidden post that is not deleted
\* answers every request (get, like at any depth, comment, reply, update,
\* hide, delete) with the status the same request gets when it names a post
\* that does not exist.
C27_HiddenLooksMissing ==
  \A pid \in DOMAIN posts :
    LET p == posts[pid] IN
    (p.isHidden /\ ~p.isDeleted) =>
      \A a \in Users \ {p.author} :
        /\ GetPost(posts, a, pid).status = GetPost(posts, a, NoSuchPost).status
        /\ \A r \in {x \in RequestsTo(pid) : x.actor = a} :
             Served(posts, r, nextId).status
               = Served(posts, [r EXCEPT !.pid = NoSuchPost], nextId).status


\* Every path a like toggle can name on a post: the post, a comment, a reply.
LikePaths == {<<0, 0>>} \cup {<<c, 0>> : c \in EntryIds} \cup (EntryIds \X EntryIds)

\* Actor b is a liker of the same targets in both stores.
SameLikesOf(b, before, after) ==
  \A pid \in DOMAIN before, path \in LikePaths :
    (b \in TargetLikers(after[pid], path[1], path[2]))
      = (b \in TargetLikers(before[pid], path[1], path[2]))

\* Every like toggle a caller without a valid token can send.
AnonymousToggleRequests ==
  {LikeReq(Anonymous, 1)}
    \cup {LikeCommentReq(Anonymous, 1, c) : c \in EntryIds}
    \cup {LikeReplyReq(Anonymous, 1, c, r) : c \in EntryIds, r \in EntryIds}

\* C28: a like toggle changes the membership of its actor only.  In every
\* step in which a toggle of actor A saves, however it overlapped with other
\* toggles, every other actor is a liker of exactly the targets they were a
\* liker of before, and no other step changes the posts; and a toggle
\* without a valid token is answered 401 and changes nothing.
C28_ToggleTouchesOnlyTheActor ==
  [][/\ \A s \in Slots :
          (reqs[s].phase = "loaded" /\ reqs'[s].phase = "done") =>
            \A b \in Users \ {reqs[s].r.actor} : SameLikesOf(b, posts, posts')
     /\ (\A s \in Slots : ~(reqs[s].phase = "loaded" /\ reqs'[s].phase = "done"))
          => posts' = posts
     /\ \A r \in AnonymousToggleRequests :
          LET res == Requested(posts, r, nextId) IN
          res.status = 401 /\ res.store = posts]_vars

\* Two actors' toggles of the same target overlapped, both answered 200 and
\* both actors are now likers of it.
C28_Witness ==
  \E s, t \in Slots :
    /\ BothAnswered(s, t)
    /\ reqs[s].status = 200 /\ reqs[t].status = 200
    /\ reqs[s].r.actor # reqs[t].r.actor
    /\ reqs[s].r.op = reqs[t].r.op
    /\ reqs[s].stale
    /\ TargetLikers(posts[1], reqs[s].r.cid, reqs[s].r.rid) = Users


\* Request bodies of a create request: content and images, and further
\* fields a caller may add.
Bodies ==
  [content : Texts, images : ImageLists, author : Users,
   isHidden : BOOLEAN, isDeleted : BOOLEAN, likes : {<<>>, <<"u2">>}]

\* C29: served on its own, a hidePost answered 200 negates isHidden and
\* changes nothing else, and a second one restores the post; an updatePost
\* answered 200 changes nothing but content and images, which become the
\* trimmed content and the images of the request; a deletePost answered 200
\* sets isDeleted and changes nothing else; none of them touches another
\* post; and a createPost answered 201 appends a post that is neither hidden
\* nor deleted, has no likes and no comments and has the caller as author,
\* whatever the request body holds besides content and images.
C29_OwnerOperationsFrame ==
  /\ \A pid \in DOMAIN posts : \A r \in OwnerRequestsTo(pid) :
       LET p == posts[pid]
           res == Served(posts, r, nextId)
       IN res.status = 200 =>
            /\ r.actor = p.author
            /\ \A other \in DOMAIN posts \ {pid} : res.store[other] = posts[other]
            /\ res.store[pid] =
                 CASE r.op = "hide" -> [p EXCEPT !.isHidden = ~p.isHidden]
                   [] r.op = "delete" -> [p EXCEPT !.isDeleted = TRUE]
                   [] r.op = "update" ->
                        [p EXCEPT !.content = Trim(r.content), !.images = r.images]
            /\ r.op = "hide" => Served(res.store, r, nextId).store = posts
  /\ \A a \in Users, body \in Bodies :
       LET res == CreateFromBody(posts, a, body, clock) IN
       res.status = 201 =>
         LET q == res.store[Len(res.store)] IN
         /\ Len(res.store) = Len(posts) + 1
         /\ \A pid \in DOMAIN posts : res.store[pid] = posts[pid]
         /\ ~q.isHidden /\ ~q.isDeleted
         /\ q.likes = <<>> /\ q.comments = <<>>
         /\ q.author = a
         /\ q.content = Trim(body.content) /\ q.images = body.images

\* A hidden post with likes, a comment and a reply, on which the owner can
\* still hide, update and delete.
C29_Witness ==
  /\ posts[1].isHidden /\ ~posts[1].isDeleted
  /\ Len(posts[1].likes) = 2
  /\ \E ci \in DOMAIN posts[1].comments : posts[1].comments[ci].replies # <<>>
  /\ Served(posts, UpdateReq("u1", 1, <<" ", "a", " ">>, <<ImageUrl>>), nextId).status = 200


\* C30: a one-time password or a reset token succeeds at most once; a
\* password differs from the one the account started with only after a
\* reset-password succeeded with a reset token that a verify-otp of the same
\* user issued; verify-otp finds a user only for the one-time password last
\* issued to that email, before its expiry and not yet used; reset-password
\* finds a user only for a reset token issued to that email, before its
\* expiry and not yet used.
C30_ResetFlowSingleUse ==
  /\ \A v \in DOMAIN issued : issued[v].uses <= 1
  /\ \A u \in Users :
       accounts[u].password # NewAccount("p0").password =>
         \E v \in DOMAIN issued :
           /\ issued[v].kind = "token" /\ issued[v].user = u /\ issued[v].uses >= 1
           /\ issued[issued[v].from].kind = "otp" /\ issued[issued[v].from].user = u
  /\ \A email \in Users, v \in 1..MaxMinted :
       /\ verifyOtpFinds(accounts, email, v, clock) =>
            /\ v \in DOMAIN issued
            /\ issued[v].kind = "otp" /\ issued[v].user = email
            /\ clock < issued[v].at + OtpLife
            /\ issued[v].uses = 0
            /\ \A w \in DOMAIN issued :
                 w > v => ~(issued[w].kind = "otp" /\ issued[w].user = email)
       /\ resetPasswordFinds(accounts, email, v, clock) =>
            /\ v \in DOMAIN issued
            /\ issued[v].kind = "token" /\ issued[v].user = email
            /\ clock < issued[v].at + TokenLife
            /\ issued[v].uses = 0

====
